---- MODULE Spec2Model ----
(***************************************************************************)
(* A model of rust-nubls: BLS signatures on BLS12-381 with Shamir          *)
(* threshold keys and proxy re-signatures.                                 *)
(*                                                                         *)
(* The pairing groups are modelled generically: the scalar field Fr is     *)
(* the integers modulo a small prime q, and a point of G1 or G2 is its     *)
(* discrete logarithm with respect to the group's generator, so that the   *)
(* scalar multiple [s]P is P*s mod q, the group law is addition mod q and  *)
(* the pairing e(P, Q) is P*Q mod q (GT written additively).  Every        *)
(* identity the library relies on (prime order, bilinearity,               *)
(* non-degeneracy) holds in this model and nothing else does.              *)
(***************************************************************************)
EXTENDS Integers, Sequences, FiniteSets, TLC

(***************************************************************************)
(* Option<T>: None is the empty sequence, Some(x) the one-element one.     *)
(***************************************************************************)
None == << >>
Some(x) == << x >>
is_some(o) == o # None
unwrap(o) == o[1]

(***************************************************************************)
(* bls12_381::Scalar, scaled down to a prime field of order q.             *)
(***************************************************************************)
q == 5
Fr == 0 .. (q - 1)
OptFr == {None} \cup {Some(x) : x \in Fr}

Scalar_zero == 0
Scalar_one == 1
Scalar_add(a, b) == (a + b) % q
Scalar_sub(a, b) == ((a - b) + q) % q
Scalar_mul(a, b) == (a * b) % q
\* Scalar::invert: a CtOption that is None exactly for zero.
Scalar_invert(a) ==
    IF a = 0 THEN None ELSE Some(CHOOSE b \in Fr : (a * b) % q = 1)
\* Scalar::from_bytes_wide: a wide integer reduced modulo the field order.
Scalar_from_bytes_wide(wide) == wide % q

(***************************************************************************)
(* G1, G2 and GT, each of prime order q, by discrete logarithm.            *)
(***************************************************************************)
G1 == Fr
G2 == Fr
G1_generator == 1
G2_identity == 0
Point_mul(P, s) == (P * s) % q
Point_add(P, Q) == (P + Q) % q
pairing(P, Q) == (P * Q) % q

(***************************************************************************)
(* utils.rs                                                                *)
(***************************************************************************)
poly_eval_panics(poly_coeffs) == poly_coeffs = << >>

\* the loop of poly_eval: coeffs.iter().rev() folded into result
RECURSIVE poly_eval_fold(_, _, _)
poly_eval_fold(coeffs, x, result) ==
    IF coeffs = << >> THEN result
    ELSE poly_eval_fold(SubSeq(coeffs, 1, Len(coeffs) - 1), x,
                        Scalar_add(Scalar_mul(result, x), coeffs[Len(coeffs)]))

\* fault: the fold started from the first coefficient instead of the last,
\* over the remaining coefficients in reverse
poly_eval_from_first(poly_coeffs, x) ==
    poly_eval_fold(Tail(poly_coeffs), x, Head(poly_coeffs))

poly_eval(poly_coeffs, x) ==
    poly_eval_fold(SubSeq(poly_coeffs, 1, Len(poly_coeffs) - 1), x,
                   poly_coeffs[Len(poly_coeffs)])

\* the filter of lambda_coeff: the indices different from fragment_index
lambda_indices(fragment_index, fragment_indices) ==
    SelectSeq(fragment_indices, LAMBDA index : index # fragment_index)

\* one factor x_m * (x_m - fragment_index)^-1; the unwrap panics on None
lambda_factor_panics(fragment_index, x_m) ==
    Scalar_invert(Scalar_sub(x_m, fragment_index)) = None
\* fault: the difference taken the other way round
lambda_factor_reversed(fragment_index, x_m) ==
    Scalar_mul(x_m, unwrap(Scalar_invert(Scalar_sub(fragment_index, x_m))))
lambda_factor(fragment_index, x_m) ==
    Scalar_mul(x_m, unwrap(Scalar_invert(Scalar_sub(x_m, fragment_index))))

\* the loop of lambda_coeff over the filtered indices: the product of the
\* factors of xs[lo], ..., xs[hi].  The product is associative and is taken
\* by halves, so that a long list does not nest the evaluation deeply.
RECURSIVE lambda_product(_, _, _, _)
lambda_product(fragment_index, xs, lo, hi) ==
    IF lo = hi THEN lambda_factor(fragment_index, xs[lo])
    ELSE LET mid == (lo + hi) \div 2
         IN  Scalar_mul(lambda_product(fragment_index, xs, lo, mid),
                        lambda_product(fragment_index, xs, mid + 1, hi))

lambda_coeff_panics(fragment_index, fragment_indices) ==
    LET indices == lambda_indices(fragment_index, fragment_indices)
    IN  \E k \in 1 .. Len(indices) : lambda_factor_panics(fragment_index, indices[k])

\* fault: the product over no indices taken as zero
lambda_coeff_zero_when_empty(fragment_index, fragment_indices) ==
    LET indices == lambda_indices(fragment_index, fragment_indices)
    IN  IF indices = << >> THEN Scalar_zero
        ELSE lambda_product(fragment_index, indices, 1, Len(indices))

lambda_coeff(fragment_index, fragment_indices) ==
    LET indices == lambda_indices(fragment_index, fragment_indices)
    IN  IF indices = << >> THEN Scalar_one
        ELSE lambda_product(fragment_index, indices, 1, Len(indices))

(***************************************************************************)
(* keys.rs: PrivateKey(Scalar, Option<Scalar>) and PublicKey(G1Affine).    *)
(* bls.rs: Signature(G2Affine, Option<Scalar>).                            *)
(***************************************************************************)
PrivateKey(s, id) == [s |-> s, id |-> id]
Signature(p, id) == [p |-> p, id |-> id]
PublicKey(P) == P

AllKeys == {PrivateKey(s, id) : s \in Fr, id \in OptFr}

PrivateKey_public_key(self) == PublicKey(Point_mul(G1_generator, self.s))

\* fault: the message point is returned as it came, the key left out
Signature_new_unsigned(private_key, message_element) ==
    [p |-> message_element, id |-> private_key.id]

\* fault: the signer's share id is not carried over
Signature_new_no_id(private_key, message_element) ==
    [p |-> Point_mul(message_element, private_key.s), id |-> None]

Signature_new(private_key, message_element) ==
    Signature(Point_mul(message_element, private_key.s), private_key.id)

PrivateKey_sign(self, message_element) == Signature_new(self, message_element)

VerificationResult_from(result) == IF result THEN "Valid" ELSE "Invalid"

Signature_verify(self, public_key, message_element) ==
    LET c_1 == pairing(public_key, message_element)
        c_2 == pairing(G1_generator, self.p)
    IN  VerificationResult_from(c_1 = c_2)

PublicKey_verify(self, message_element, signature) ==
    Signature_verify(signature, self, message_element)

PrivateKey_is_fragment(self) == self.id # None
Signature_is_fragment(self) == self.id # None

(***************************************************************************)
(* ThresholdKey for PrivateKey (keys.rs).  `draws' is the sequence of      *)
(* scalars that the successive calls of PrivateKey::random() return inside *)
(* split: first the m-1 coefficients, then the n fragment indices.         *)
(***************************************************************************)
split_coeff_draws(m) == IF m >= 1 THEN m - 1 ELSE 0
split_draws(m, n) == split_coeff_draws(m) + n

\* fault: the secret pushed after the random coefficients, not before
split_coeffs_secret_last(self, m, draws) ==
    SubSeq(draws, 1, split_coeff_draws(m)) \o << self.s >>

split_coeffs(self, m, draws) == << self.s >> \o SubSeq(draws, 1, split_coeff_draws(m))

PrivateKey_split(self, m, n, draws) ==
    LET coeffs == split_coeffs(self, m, draws)
    IN  [k \in 1 .. n |->
            LET fragment_index == draws[split_coeff_draws(m) + k]
            IN  PrivateKey(poly_eval(coeffs, fragment_index), Some(fragment_index))]

\* the fixed buffer `[Scalar::zero(); 256]' of recover and assemble
FRAGMENT_BUFFER_LEN == 256

\* fault: the buffer taken to be full one entry early
fragment_indices_panics_one_early(fragments) ==
    \E i \in 1 .. Len(fragments) :
        i >= FRAGMENT_BUFFER_LEN \/ fragments[i].id = None

\* the first loop of recover/assemble: ids copied into the buffer; it panics
\* on an index past the buffer and on an id that is None
fragment_indices_panics(fragments) ==
    \E i \in 1 .. Len(fragments) :
        i > FRAGMENT_BUFFER_LEN \/ fragments[i].id = None

fragment_indices_buffer(fragments) ==
    [i \in 1 .. FRAGMENT_BUFFER_LEN |->
        IF i <= Len(fragments) THEN unwrap(fragments[i].id) ELSE Scalar_zero]

\* `&fragment_indices[..fragments.len()]'
\* fault: the slice one entry short
fragment_indices_slice_short(fragments) ==
    SubSeq(fragment_indices_buffer(fragments), 1, Len(fragments) - 1)

fragment_indices_slice(fragments) ==
    SubSeq(fragment_indices_buffer(fragments), 1, Len(fragments))

\* the second loop of recover: the sum of lambda_coeff * fragment.0 over
\* fragments[lo], ..., fragments[hi], by halves as in lambda_product
RECURSIVE recover_sum(_, _, _, _)
recover_sum(fragments, indices, lo, hi) ==
    IF lo > hi THEN Scalar_zero
    ELSE IF lo = hi
         THEN Scalar_add(Scalar_zero,
                         Scalar_mul(lambda_coeff(unwrap(fragments[lo].id), indices),
                                    fragments[lo].s))
    ELSE LET mid == (lo + hi) \div 2
         IN  Scalar_add(recover_sum(fragments, indices, lo, mid),
                        recover_sum(fragments, indices, mid + 1, hi))

PrivateKey_recover_panics(fragments) ==
    \/ fragment_indices_panics(fragments)
    \/ LET indices == fragment_indices_slice(fragments)
       IN  \E k \in 1 .. Len(fragments) :
               lambda_coeff_panics(unwrap(fragments[k].id), indices)

PrivateKey_recover(fragments) ==
    LET indices == fragment_indices_slice(fragments)
    IN  PrivateKey(recover_sum(fragments, indices, 1, Len(fragments)), None)

(***************************************************************************)
(* ThresholdSignature for Signature (bls.rs)                               *)
(***************************************************************************)
\* fault: the fragment points added up without their Lagrange coefficients
RECURSIVE assemble_sum_unweighted(_, _, _, _)
assemble_sum_unweighted(fragments, indices, lo, hi) ==
    IF lo > hi THEN G2_identity
    ELSE IF lo = hi THEN Point_add(G2_identity, fragments[lo].p)
    ELSE LET mid == (lo + hi) \div 2
         IN  Point_add(assemble_sum_unweighted(fragments, indices, lo, mid),
                       assemble_sum_unweighted(fragments, indices, mid + 1, hi))

\* the second loop of assemble: the sum in G2 of fragment.0 * lambda_coeff
RECURSIVE assemble_sum(_, _, _, _)
assemble_sum(fragments, indices, lo, hi) ==
    IF lo > hi THEN G2_identity
    ELSE IF lo = hi
         THEN Point_add(G2_identity,
                        Point_mul(fragments[lo].p,
                                  lambda_coeff(unwrap(fragments[lo].id), indices)))
    ELSE LET mid == (lo + hi) \div 2
         IN  Point_add(assemble_sum(fragments, indices, lo, mid),
                       assemble_sum(fragments, indices, mid + 1, hi))

Signature_assemble_panics(fragments) ==
    \/ fragment_indices_panics(fragments)
    \/ LET indices == fragment_indices_slice(fragments)
       IN  \E k \in 1 .. Len(fragments) :
               lambda_coeff_panics(unwrap(fragments[k].id), indices)

Signature_assemble(fragments) ==
    LET indices == fragment_indices_slice(fragments)
    IN  Signature(assemble_sum(fragments, indices, 1, Len(fragments)), None)

(***************************************************************************)
(* Point encodings of the curve library.  A point other than the identity  *)
(* has an x coordinate shared with its negative and a sign of y: here the  *)
(* pair {P, q - P} shares x = min(P, q - P), and the larger of the two has *)
(* the sign bit set.                                                       *)
(***************************************************************************)
Point_x(P) == IF P <= q - P THEN P ELSE q - P
Point_y_sign(P) == P > q - P
FLAG_COMPRESSED == 128
FLAG_INFINITY == 64
FLAG_SORT == 32
G1_COMPRESSED_LEN == 48
G2_COMPRESSED_LEN == 96
G1_UNCOMPRESSED_LEN == 96

Point_flags(P) ==
    IF P = 0 THEN FLAG_INFINITY ELSE IF Point_y_sign(P) THEN FLAG_SORT ELSE 0

\* to_compressed: the flag bits in the first byte, x big-endian in the rest
Point_to_compressed(P, len) ==
    [i \in 1 .. len |->
        IF i = 1 THEN FLAG_COMPRESSED + Point_flags(P)
        ELSE IF i = len THEN (IF P = 0 THEN 0 ELSE Point_x(P))
        ELSE 0]

\* from_compressed: a CtOption, None unless the bytes are the encoding of a
\* point of the prime-order group
Point_from_compressed(bytes) ==
    LET len == Len(bytes)
        x == bytes[len]
        high_zero == \A i \in 2 .. (len - 1) : bytes[i] = 0
        x_valid == x >= 1 /\ x <= (q - 1) \div 2
    IN  IF ~high_zero THEN None
        ELSE IF bytes[1] = FLAG_COMPRESSED + FLAG_INFINITY
             THEN (IF x = 0 THEN Some(0) ELSE None)
        ELSE IF bytes[1] = FLAG_COMPRESSED
             THEN (IF x_valid THEN Some(x) ELSE None)
        ELSE IF bytes[1] = FLAG_COMPRESSED + FLAG_SORT
             THEN (IF x_valid THEN Some(q - x) ELSE None)
        ELSE None

\* G1Affine::to_uncompressed: x then y, 48 bytes each; y is carried here by
\* its sign alone
G1_to_uncompressed(P) ==
    [i \in 1 .. G1_UNCOMPRESSED_LEN |->
        IF i = 1 THEN (IF P = 0 THEN FLAG_INFINITY ELSE 0)
        ELSE IF i = G1_COMPRESSED_LEN THEN (IF P = 0 THEN 0 ELSE Point_x(P))
        ELSE IF i = G1_UNCOMPRESSED_LEN
             THEN (IF P = 0 THEN 0 ELSE IF Point_y_sign(P) THEN 2 ELSE 1)
        ELSE 0]

(***************************************************************************)
(* PRSKey for PrivateKey (keys.rs).  SHA-512 is a fixed function of the    *)
(* encoded point.  Its value taken as a wide integer is assumed never to   *)
(* be a multiple of the field order (for the real field that is an event   *)
(* of probability 2^-255 per input), so the digest modelled here is        *)
(* congruent to 1 .. q-1.                                                  *)
(***************************************************************************)
RECURSIVE Sha512_mix(_, _, _)
Sha512_mix(bytes, lo, hi) ==
    IF lo > hi THEN 0
    ELSE IF lo = hi THEN ((2 * lo + 1) * bytes[lo]) % 65521
    ELSE LET mid == (lo + hi) \div 2
         IN  (Sha512_mix(bytes, lo, mid) + Sha512_mix(bytes, mid + 1, hi)) % 65521

Sha512_digest(bytes) ==
    LET h == Sha512_mix(bytes, 1, Len(bytes))
    IN  q * h + 1 + (h % (q - 1))

\* fault: the digest is taken of the other party's public key, the
\* Diffie-Hellman multiplication left out
PrivateKey_designated_key_no_dh(self, alice_pubkey) ==
    [s |-> Scalar_from_bytes_wide(Sha512_digest(G1_to_uncompressed(alice_pubkey))),
     id |-> None]

PrivateKey_designated_key(self, alice_pubkey) ==
    LET dh == Sha512_digest(G1_to_uncompressed(Point_mul(alice_pubkey, self.s)))
    IN  PrivateKey(Scalar_from_bytes_wide(dh), None)

PrivateKey_resigning_key_panics(self, bob_pubkey) ==
    Scalar_invert(PrivateKey_designated_key(self, bob_pubkey).s) = None

\* fault: a * phi_B in place of a / phi_B
PrivateKey_resigning_key_no_invert(self, bob_pubkey) ==
    [s |-> Scalar_mul(self.s, PrivateKey_designated_key(self, bob_pubkey).s),
     id |-> None]

PrivateKey_resigning_key(self, bob_pubkey) ==
    LET phi_b == PrivateKey_designated_key(self, bob_pubkey).s
    IN  PrivateKey(Scalar_mul(self.s, unwrap(Scalar_invert(phi_b))), None)

PrivateKey_resign(self, signature) == Signature_new(self, signature.p)

(***************************************************************************)
(* Serialization (keys.rs, bls.rs).  A byte string is a sequence of        *)
(* numbers 0..255.  The field order is below 256, so the canonical         *)
(* little-endian encoding of a scalar is its value in the first byte and   *)
(* zeros after it, and 32 bytes are canonical exactly when they have this  *)
(* shape with a first byte below q.                                        *)
(***************************************************************************)
SCALAR_BYTES_LENGTH == 32
G2_POINT_BYTES_LENGTH == 96
FRAGMENT_KEY_BYTES == 64
FRAGMENT_SIGNATURE_BYTES == 128

Scalar_to_bytes(v) ==
    [i \in 1 .. SCALAR_BYTES_LENGTH |-> IF i = 1 THEN v ELSE 0]

\* Scalar::from_bytes: a CtOption, None when the bytes are not canonical
Scalar_from_bytes(bytes) ==
    IF bytes[1] < q /\ \A i \in 2 .. SCALAR_BYTES_LENGTH : bytes[i] = 0
    THEN Some(bytes[1]) ELSE None

\* fault: the bytes outside the range are cleared
copy_into_clearing(buff, lo, hi, src) ==
    [i \in 1 .. Len(buff) |-> IF i > lo /\ i <= hi THEN src[i - lo] ELSE 0]

\* `buff[lo..hi].copy_from_slice(src)', with Rust's half-open 0-based range
\* written as the 1-based positions lo+1 .. hi
copy_into(buff, lo, hi, src) ==
    [i \in 1 .. Len(buff) |-> IF i > lo /\ i <= hi THEN src[i - lo] ELSE buff[i]]

PrivateKey_to_bytes_panics(self, buff) ==
    \/ Len(buff) < SCALAR_BYTES_LENGTH
    \/ self.id # None /\ Len(buff) < FRAGMENT_KEY_BYTES

\* fault: the share id is not written
PrivateKey_to_bytes_no_id(self, buff) ==
    copy_into(buff, 0, SCALAR_BYTES_LENGTH, Scalar_to_bytes(self.s))

PrivateKey_to_bytes(self, buff) ==
    LET b1 == copy_into(buff, 0, SCALAR_BYTES_LENGTH, Scalar_to_bytes(self.s))
    IN  IF self.id # None
        THEN copy_into(b1, SCALAR_BYTES_LENGTH, FRAGMENT_KEY_BYTES,
                       Scalar_to_bytes(unwrap(self.id)))
        ELSE b1

\* the buffer a panicking to_bytes leaves behind: `buff[0..32]' is written
\* before `buff[32..64]' is indexed
PrivateKey_to_bytes_unwound(self, buff) ==
    IF Len(buff) < SCALAR_BYTES_LENGTH THEN buff
    ELSE copy_into(buff, 0, SCALAR_BYTES_LENGTH, Scalar_to_bytes(self.s))

PrivateKey_from_bytes_panics(bytes) ==
    IF Len(bytes) = SCALAR_BYTES_LENGTH
    THEN Scalar_from_bytes(bytes) = None
    ELSE \/ Len(bytes) < FRAGMENT_KEY_BYTES
         \/ Scalar_from_bytes(SubSeq(bytes, SCALAR_BYTES_LENGTH + 1, FRAGMENT_KEY_BYTES)) = None
         \/ Scalar_from_bytes(SubSeq(bytes, 1, SCALAR_BYTES_LENGTH)) = None

PrivateKey_from_bytes(bytes) ==
    IF Len(bytes) = SCALAR_BYTES_LENGTH
    THEN PrivateKey(unwrap(Scalar_from_bytes(bytes)), None)
    ELSE LET scalar_bytes == SubSeq(bytes, 1, SCALAR_BYTES_LENGTH)
             index_bytes == SubSeq(bytes, SCALAR_BYTES_LENGTH + 1, FRAGMENT_KEY_BYTES)
         IN  PrivateKey(unwrap(Scalar_from_bytes(scalar_bytes)),
                        Some(unwrap(Scalar_from_bytes(index_bytes))))

PublicKey_to_bytes(self) == Point_to_compressed(self, G1_COMPRESSED_LEN)

PublicKey_from_bytes_panics(bytes) == Point_from_compressed(bytes) = None
PublicKey_from_bytes(bytes) == PublicKey(unwrap(Point_from_compressed(bytes)))

Signature_to_bytes_panics(self, buff) ==
    \/ Len(buff) < G2_POINT_BYTES_LENGTH
    \/ self.id # None /\ Len(buff) < FRAGMENT_SIGNATURE_BYTES

Signature_to_bytes(self, buff) ==
    LET b1 == copy_into(buff, 0, G2_POINT_BYTES_LENGTH,
                        Point_to_compressed(self.p, G2_COMPRESSED_LEN))
    IN  IF self.id # None
        THEN copy_into(b1, G2_POINT_BYTES_LENGTH, FRAGMENT_SIGNATURE_BYTES,
                       Scalar_to_bytes(unwrap(self.id)))
        ELSE b1

\* the buffer a panicking to_bytes leaves behind: `buff[0..96]' is written
\* before `buff[96..128]' is indexed
Signature_to_bytes_unwound(self, buff) ==
    IF Len(buff) < G2_POINT_BYTES_LENGTH THEN buff
    ELSE copy_into(buff, 0, G2_POINT_BYTES_LENGTH,
                   Point_to_compressed(self.p, G2_COMPRESSED_LEN))

\* the Python wrapper's to_bytes: a zeroed buffer of 96 bytes for an ordinary
\* signature and of 128 bytes for a fragment, handed to Signature::to_bytes
Signature_to_bytes_buff(self) ==
    IF ~Signature_is_fragment(self)
    THEN [i \in 1 .. G2_POINT_BYTES_LENGTH |-> 0]
    ELSE [i \in 1 .. FRAGMENT_SIGNATURE_BYTES |-> 0]

Signature_from_bytes_panics(bytes) ==
    IF Len(bytes) = G2_POINT_BYTES_LENGTH
    THEN Point_from_compressed(bytes) = None
    ELSE \/ Len(bytes) < FRAGMENT_SIGNATURE_BYTES
         \/ Scalar_from_bytes(SubSeq(bytes, G2_POINT_BYTES_LENGTH + 1,
                                     FRAGMENT_SIGNATURE_BYTES)) = None
         \/ Point_from_compressed(SubSeq(bytes, 1, G2_POINT_BYTES_LENGTH)) = None

Signature_from_bytes(bytes) ==
    IF Len(bytes) = G2_POINT_BYTES_LENGTH
    THEN Signature(unwrap(Point_from_compressed(bytes)), None)
    ELSE LET point_bytes == SubSeq(bytes, 1, G2_POINT_BYTES_LENGTH)
             index_bytes == SubSeq(bytes, G2_POINT_BYTES_LENGTH + 1,
                                   FRAGMENT_SIGNATURE_BYTES)
         IN  Signature(unwrap(Point_from_compressed(point_bytes)),
                       Some(unwrap(Scalar_from_bytes(index_bytes))))

(***************************************************************************)
(* Bounds of the model.                                                    *)
(***************************************************************************)
\* split is called with m in 0 .. MaxM and n in 0 .. MaxN, every draw of the
\* entropy source enumerated
MaxM == 2
MaxN == 2

\* what the 64 bytes of getrandom reduce from: every residue is hit
RawEntropy == 0 .. (2 * q - 1)
RandomScalars == {Scalar_from_bytes_wide(wide) : wide \in RawEntropy}

\* the scalars drawn inside one split: all sequences for a small split, and
\* the runs a, a+1, a+2, ... for a split past the fragment buffer
Draws(k) ==
    IF k <= MaxM + MaxN
    THEN [1 .. k -> RandomScalars]
    ELSE {[i \in 1 .. k |-> (a + i) % q] : a \in RandomScalars}

\* utils.rs is called with lists of at most MaxLen scalars
MaxLen == 3
ScalarLists == UNION {[1 .. k -> Fr] : k \in 0 .. MaxLen}

\* recover and assemble are also called with any list of at most MaxList keys
\* or signatures
MaxList == 2
KeyLists == UNION {[1 .. k -> AllKeys] : k \in 0 .. MaxList}

\* the message points the holders of fragments sign together: the first
\* MaxMessage multiples of the generator of G2
MaxMessage == 2
ThresholdMessages == 1 .. MaxMessage

\* lists of fragments as long as the fragment buffer and one longer: the
\* scalars a, 2a, 3a, ... with the ids b+1, b+2, ...
LongLists ==
    {[i \in 1 .. len |-> PrivateKey((a * i) % q, Some((b + i) % q))] :
        len \in {FRAGMENT_BUFFER_LEN, FRAGMENT_BUFFER_LEN + 1},
        a \in Fr, b \in {0, 1}}

\* the (m, n) split is called with
SplitArgs ==
    ((0 .. MaxM) \X (0 .. MaxN)) \cup ({0, 1} \X {FRAGMENT_BUFFER_LEN + 1})

\* the ways to pick fragments out of n: the positions kept, in their order
\* (any order of the fragments is the output of a split that drew the same
\* scalars in that order)
RECURSIVE Ascending(_, _)
Ascending(S, from) ==
    IF \A i \in S : i < from THEN << >>
    ELSE LET least == CHOOSE i \in S : i >= from /\ \A j \in S : j >= from => i <= j
         IN  << least >> \o Ascending(S, least + 1)
Picks(n) == {Ascending(S, 1) : S \in SUBSET (1 .. n)}

\* buffers a caller hands to to_bytes: a length and the byte it is filled with
BufLens == {16, 32, 48, 64, 96, 128, 160}
BufFill == {0, 170}

(***************************************************************************)
(* State: the values a caller of the library holds, the last operation it  *)
(* ran, and (the names ending in From or Src, and secret, thr, cnt) the    *)
(* history of those values.  Every value is immutable: an operation reads  *)
(* the values held and produces a new one.  A register that holds nothing  *)
(* is None.                                                                *)
(***************************************************************************)
VARIABLES
    op,         \* the last operation
    aborted,    \* whether it panicked
    key,        \* Option<PrivateKey>
    keyFrom,    \* the constructor that made key
    sig,        \* Option<Signature>
    sigFrom,    \* the constructor that made sig
    signerFrom, \* the constructor that made the key which signed sig
    msg,        \* Option<G2Affine>: the message point that was signed
    frags,      \* a list of PrivateKey: a split's output, or fragments picked from it
    sigs,       \* a list of Signature: what each key of frags signed
    secret,     \* Option<Scalar>: the scalar of the key that was split
    thr,        \* the m of that split
    cnt,        \* the n of that split
    alice,      \* Option<PrivateKey>: the delegator of a re-signature
    bob,        \* Option<PrivateKey>: the delegate
    pub,        \* Option<PublicKey>
    vmsg,       \* Option<G2Affine>: the message point given to verify
    verdict,    \* "none", "Valid" or "Invalid"
    buf,        \* a byte buffer
    keySrc,     \* Option<PrivateKey>: the key that was serialized into buf
    sigSrc,     \* Option<Signature>: the signature that was serialized into buf
    pubSrc,     \* Option<PublicKey>: the public key that was serialized into buf
    args,       \* the arguments of a call of a function of utils.rs, or the
                \* buffer a call of to_bytes was handed
    ret         \* Option<Scalar>: what the call of utils.rs returned

keyVars == << key, keyFrom >>
sigVars == << sig, sigFrom, signerFrom, msg >>
thrVars == << frags, sigs, secret, thr, cnt >>
prsVars == << alice, bob >>
verVars == << pub, vmsg, verdict >>
serVars == << buf, keySrc, sigSrc, pubSrc >>
utilVars == << args, ret >>
vars == << op, aborted, keyVars, sigVars, thrVars, prsVars, verVars, serVars, utilVars >>

NoKey == key' = None /\ keyFrom' = "none"
NoSig == sig' = None /\ sigFrom' = "none" /\ signerFrom' = "none" /\ msg' = None
NoThreshold == frags' = << >> /\ sigs' = << >> /\ secret' = None /\ thr' = 0 /\ cnt' = 0
NoParties == alice' = None /\ bob' = None
NoVerify == pub' = None /\ vmsg' = None /\ verdict' = "none"
NoBytes == buf' = << >> /\ keySrc' = None /\ sigSrc' = None /\ pubSrc' = None

Init ==
    /\ op = "init" /\ aborted = FALSE
    /\ key = None /\ keyFrom = "none"
    /\ sig = None /\ sigFrom = "none" /\ signerFrom = "none" /\ msg = None
    /\ frags = << >> /\ sigs = << >> /\ secret = None /\ thr = 0 /\ cnt = 0
    /\ alice = None /\ bob = None
    /\ pub = None /\ vmsg = None /\ verdict = "none"
    /\ buf = << >> /\ keySrc = None /\ sigSrc = None /\ pubSrc = None
    /\ args = << >> /\ ret = None

\* a panic: the operation returns nothing and the caller is gone
Panic(name) ==
    /\ op' = name /\ aborted' = TRUE
    /\ NoKey /\ NoSig /\ NoThreshold /\ NoParties /\ NoVerify /\ NoBytes

\* a panic of from_bytes: as Panic, the bytes read and their history kept
PanicReading(name, bytes) ==
    /\ op' = name /\ aborted' = TRUE
    /\ NoKey /\ NoSig /\ NoThreshold /\ NoParties /\ NoVerify
    /\ buf' = bytes
    /\ UNCHANGED << keySrc, sigSrc, pubSrc >>

\* fault: the failed unwrap goes unnoticed and the caller carries on
PanicCombining_unnoticed(name) ==
    /\ op' = name /\ aborted' = FALSE
    /\ NoKey /\ NoSig /\ NoParties /\ NoVerify /\ NoBytes
    /\ UNCHANGED thrVars

\* a panic of recover or assemble: as Panic, the list it was given kept
PanicCombining(name) ==
    /\ op' = name /\ aborted' = TRUE
    /\ NoKey /\ NoSig /\ NoParties /\ NoVerify /\ NoBytes
    /\ UNCHANGED thrVars

(***************************************************************************)
(* PrivateKey::random                                                      *)
(***************************************************************************)
Random ==
    /\ ~aborted /\ op = "init"
    /\ UNCHANGED utilVars
    /\ \/ \E wide \in RawEntropy :
             /\ key' = Some(PrivateKey(Scalar_from_bytes_wide(wide), None))
             /\ keyFrom' = "random"
             /\ op' = "random" /\ aborted' = FALSE
             /\ NoSig /\ NoThreshold /\ NoParties /\ NoVerify /\ NoBytes
       \/ Panic("random")     \* getrandom returned Err

(***************************************************************************)
(* ThresholdKey::split, and the caller taking fragments out of its result  *)
(***************************************************************************)
Split ==
    /\ ~aborted /\ op \in {"random", "key_from_bytes", "pick"}
    /\ UNCHANGED utilVars
    /\ \E << m, n >> \in SplitArgs :
         \/ \E draws \in Draws(split_draws(m, n)) :
               /\ frags' = PrivateKey_split(unwrap(key), m, n, draws)
               /\ secret' = Some(unwrap(key).s) /\ thr' = m /\ cnt' = n
               /\ sigs' = << >>
               /\ op' = "split" /\ aborted' = FALSE
               /\ NoKey /\ NoSig /\ NoParties /\ NoVerify /\ NoBytes
         \/ split_draws(m, n) > 0 /\ Panic("split")   \* getrandom returned Err

Take ==
    /\ ~aborted /\ op = "split" /\ cnt <= MaxN
    /\ UNCHANGED utilVars
    /\ \E sel \in Picks(cnt) :
         frags' = [i \in 1 .. Len(sel) |-> frags[sel[i]]]
    /\ op' = "take"
    /\ UNCHANGED << aborted, keyVars, sigVars, sigs, secret, thr, cnt,
                    prsVars, verVars, serVars >>

PickFragment ==
    /\ ~aborted /\ op = "split"
    /\ UNCHANGED utilVars
    /\ \E i \in 1 .. Len(frags) :
         key' = Some(frags[i])
    /\ keyFrom' = "split"
    /\ op' = "pick"
    /\ NoThreshold
    /\ UNCHANGED << aborted, sigVars, prsVars, verVars, serVars >>

\* a caller that puts a list of keys together itself
Gather ==
    /\ ~aborted /\ op = "init"
    /\ UNCHANGED utilVars
    /\ frags' \in KeyLists
    /\ sigs' = << >> /\ secret' = None /\ thr' = 0 /\ cnt' = 0
    /\ op' = "gather"
    /\ UNCHANGED << aborted, keyVars, sigVars, prsVars, verVars, serVars >>

(***************************************************************************)
(* ThresholdKey::recover                                                   *)
(***************************************************************************)
Recover ==
    /\ ~aborted /\ op \in {"take", "gather"}
    /\ UNCHANGED utilVars
    /\ IF PrivateKey_recover_panics(frags)
       THEN PanicCombining("recover")
       ELSE /\ key' = Some(PrivateKey_recover(frags))
            /\ keyFrom' = "recover"
            /\ op' = "recover"
            /\ UNCHANGED << aborted, sigVars, thrVars, prsVars, verVars, serVars >>

(***************************************************************************)
(* Each holder of a fragment signs the same message point;                 *)
(* ThresholdSignature::assemble                                            *)
(***************************************************************************)
SignEach ==
    /\ ~aborted /\ op \in {"take", "gather"}
    /\ UNCHANGED utilVars
    /\ \E M \in ThresholdMessages :
         /\ sigs' = [i \in 1 .. Len(frags) |-> PrivateKey_sign(frags[i], M)]
         /\ msg' = Some(M)
    /\ op' = "sign_each"
    /\ UNCHANGED << aborted, keyVars, sig, sigFrom, signerFrom, frags, secret, thr, cnt,
                    prsVars, verVars, serVars >>

Assemble ==
    /\ ~aborted /\ op = "sign_each"
    /\ UNCHANGED utilVars
    /\ IF Signature_assemble_panics(sigs)
       THEN PanicCombining("assemble")
       ELSE /\ sig' = Some(Signature_assemble(sigs))
            /\ sigFrom' = "assemble"
            /\ op' = "assemble"
            /\ UNCHANGED << aborted, keyVars, signerFrom, msg, thrVars,
                            prsVars, verVars, serVars >>

(***************************************************************************)
(* PrivateKey::public_key, PrivateKey::sign, PublicKey::verify             *)
(***************************************************************************)
PublicKeyOf ==
    /\ ~aborted /\ op \in {"random", "pick", "key_from_bytes"}
    /\ UNCHANGED utilVars
    /\ pub' = Some(PrivateKey_public_key(unwrap(key)))
    /\ vmsg' = None /\ verdict' = "none"
    /\ op' = "public_key"
    /\ NoThreshold /\ NoBytes
    /\ UNCHANGED << aborted, keyVars, sigVars, prsVars >>

Sign ==
    /\ ~aborted /\ op \in {"random", "pick", "key_from_bytes", "designated_key"}
    /\ UNCHANGED utilVars
    /\ \E M \in G2 :
         /\ sig' = Some(PrivateKey_sign(unwrap(key), M))
         /\ msg' = Some(M)
    /\ sigFrom' = "sign" /\ signerFrom' = keyFrom
    /\ op' = "sign"
    /\ NoThreshold /\ NoVerify /\ NoBytes
    /\ UNCHANGED << aborted, keyVars, prsVars >>

\* the verifier holds a public key and a message point of its own
Verify ==
    /\ ~aborted /\ op \in {"sign", "resign", "sig_from_bytes"} /\ alice = None
    /\ UNCHANGED utilVars
    /\ \E pk \in G1, M \in G2 :
         /\ pub' = Some(PublicKey(pk))
         /\ vmsg' = Some(M)
         /\ verdict' = PublicKey_verify(PublicKey(pk), M, unwrap(sig))
    /\ op' = "verify"
    /\ NoThreshold /\ NoBytes
    /\ UNCHANGED << aborted, keyVars, sigVars, prsVars >>

(***************************************************************************)
(* Proxy re-signature: Alice delegates to Bob.  Bob derives the designated *)
(* key and signs with it, Alice derives the re-signing key, and the proxy  *)
(* holding it re-signs what Bob signed.                                    *)
(***************************************************************************)
Parties ==
    /\ ~aborted /\ op = "init"
    /\ UNCHANGED utilVars
    /\ \E a \in AllKeys, b \in AllKeys :
         alice' = Some(a) /\ bob' = Some(b)
    /\ op' = "parties"
    /\ NoKey /\ NoSig /\ NoThreshold /\ NoVerify /\ NoBytes
    /\ aborted' = FALSE

DesignatedKey ==
    /\ ~aborted /\ op = "parties"
    /\ UNCHANGED utilVars
    /\ key' = Some(PrivateKey_designated_key(unwrap(bob),
                                             PrivateKey_public_key(unwrap(alice))))
    /\ keyFrom' = "designated_key"
    /\ op' = "designated_key"
    /\ UNCHANGED << aborted, sigVars, thrVars, prsVars, verVars, serVars >>

ResigningKey ==
    /\ ~aborted /\ (op = "parties" \/ (op = "sign" /\ alice # None))
    /\ UNCHANGED utilVars
    /\ LET bob_pubkey == PrivateKey_public_key(unwrap(bob))
       IN  IF PrivateKey_resigning_key_panics(unwrap(alice), bob_pubkey)
           THEN Panic("resigning_key")
           ELSE /\ key' = Some(PrivateKey_resigning_key(unwrap(alice), bob_pubkey))
                /\ keyFrom' = "resigning_key"
                /\ op' = "resigning_key"
                /\ UNCHANGED << aborted, sigVars, thrVars, prsVars, verVars, serVars >>

Resign ==
    /\ ~aborted /\ op \in {"sign", "resigning_key"} /\ sig # None
    /\ UNCHANGED utilVars
    /\ sig' = Some(PrivateKey_resign(unwrap(key), unwrap(sig)))
    /\ sigFrom' = "resign" /\ signerFrom' = keyFrom
    /\ op' = "resign"
    /\ UNCHANGED << aborted, keyVars, msg, thrVars, prsVars, verVars, serVars >>

\* a panic of to_bytes: as Panic, the value (borrowed as &self) and the
\* caller's buffer kept
PanicWriting(name, buff, written) ==
    /\ op' = name /\ aborted' = TRUE
    /\ NoThreshold /\ NoParties /\ NoVerify
    /\ args' = << buff >> /\ buf' = written

(***************************************************************************)
(* to_bytes and from_bytes.  The caller allocates the buffer to_bytes      *)
(* writes into, and hands from_bytes a prefix of the bytes it holds.       *)
(***************************************************************************)
Buffers == {[i \in 1 .. len |-> fill] : len \in BufLens, fill \in BufFill}
Prefixes(bytes) == {SubSeq(bytes, 1, len) : len \in {l \in BufLens : l <= Len(bytes)}}

\* bytes that come from outside
Input ==
    /\ ~aborted /\ op = "init"
    /\ UNCHANGED utilVars
    /\ buf' \in Buffers
    /\ keySrc' = None /\ sigSrc' = None /\ pubSrc' = None
    /\ op' = "input"
    /\ UNCHANGED << aborted, keyVars, sigVars, thrVars, prsVars, verVars >>

KeyToBytes ==
    /\ ~aborted /\ op \in {"random", "pick", "key_from_bytes"}
    /\ UNCHANGED << keyVars, ret >>
    /\ NoSig
    /\ keySrc' = key /\ sigSrc' = None /\ pubSrc' = None
    /\ \E buff \in Buffers :
         IF PrivateKey_to_bytes_panics(unwrap(key), buff)
         THEN PanicWriting("key_to_bytes", buff,
                           PrivateKey_to_bytes_unwound(unwrap(key), buff))
         ELSE /\ buf' = PrivateKey_to_bytes(unwrap(key), buff)
              /\ args' = << buff >>
              /\ op' = "key_to_bytes"
              /\ NoThreshold /\ NoParties /\ NoVerify
              /\ aborted' = FALSE

KeyFromBytes ==
    /\ ~aborted /\ op \in {"input", "key_to_bytes"}
    /\ args' = << >> /\ UNCHANGED ret
    /\ \E bytes \in Prefixes(buf) :
         IF PrivateKey_from_bytes_panics(bytes)
         THEN PanicReading("key_from_bytes", bytes)
         ELSE /\ key' = Some(PrivateKey_from_bytes(bytes))
              /\ keyFrom' = IF Len(bytes) = SCALAR_BYTES_LENGTH
                            THEN "from_bytes" ELSE "from_bytes_fragment"
              /\ buf' = bytes
              /\ op' = "key_from_bytes"
              /\ UNCHANGED << aborted, sigVars, thrVars, prsVars, verVars,
                              keySrc, sigSrc, pubSrc >>

PubToBytes ==
    /\ ~aborted /\ op = "public_key"
    /\ UNCHANGED utilVars
    /\ buf' = PublicKey_to_bytes(unwrap(pub))
    /\ pubSrc' = pub /\ keySrc' = None /\ sigSrc' = None
    /\ op' = "pub_to_bytes"
    /\ NoKey /\ NoSig /\ NoThreshold /\ NoParties /\ NoVerify
    /\ aborted' = FALSE

PubFromBytes ==
    /\ ~aborted /\ op \in {"input", "pub_to_bytes"}
    /\ UNCHANGED utilVars
    /\ \E bytes \in Prefixes(buf) :
         /\ Len(bytes) = G1_COMPRESSED_LEN   \* the argument is a &[u8; 48]
         /\ IF PublicKey_from_bytes_panics(bytes)
            THEN PanicReading("pub_from_bytes", bytes)
            ELSE /\ pub' = Some(PublicKey_from_bytes(bytes))
                 /\ vmsg' = None /\ verdict' = "none"
                 /\ buf' = bytes
                 /\ op' = "pub_from_bytes"
                 /\ UNCHANGED << aborted, keyVars, sigVars, thrVars, prsVars,
                                 keySrc, sigSrc, pubSrc >>

SigToBytes ==
    /\ ~aborted /\ op \in {"sign", "resign"} /\ alice = None
    /\ UNCHANGED << sigVars, ret >>
    /\ NoKey
    /\ sigSrc' = sig /\ keySrc' = None /\ pubSrc' = None
    /\ \E buff \in Buffers :
         IF Signature_to_bytes_panics(unwrap(sig), buff)
         THEN PanicWriting("sig_to_bytes", buff,
                           Signature_to_bytes_unwound(unwrap(sig), buff))
         ELSE /\ buf' = Signature_to_bytes(unwrap(sig), buff)
              /\ args' = << buff >>
              /\ op' = "sig_to_bytes"
              /\ NoThreshold /\ NoParties /\ NoVerify
              /\ aborted' = FALSE

SigFromBytes ==
    /\ ~aborted /\ op \in {"input", "sig_to_bytes"}
    /\ args' = << >> /\ UNCHANGED ret
    /\ \E bytes \in Prefixes(buf) :
         IF Signature_from_bytes_panics(bytes)
         THEN PanicReading("sig_from_bytes", bytes)
         ELSE /\ sig' = Some(Signature_from_bytes(bytes))
              /\ sigFrom' = IF Len(bytes) = G2_POINT_BYTES_LENGTH
                            THEN "from_bytes" ELSE "from_bytes_fragment"
              /\ signerFrom' = "none" /\ msg' = None
              /\ buf' = bytes
              /\ op' = "sig_from_bytes"
              /\ UNCHANGED << aborted, keyVars, thrVars, prsVars, verVars,
                              keySrc, sigSrc, pubSrc >>

\* a caller that puts a list together that fills the fragment buffer
GatherMany ==
    /\ ~aborted /\ op = "init"
    /\ UNCHANGED utilVars
    /\ frags' \in LongLists
    /\ sigs' = << >> /\ secret' = None /\ thr' = 0 /\ cnt' = 0
    /\ op' = "gather"
    /\ UNCHANGED << aborted, keyVars, sigVars, prsVars, verVars, serVars >>

\* recover and assemble at the fragment buffer's length
NextCeiling == GatherMany \/ Recover \/ SignEach \/ Assemble

SpecCeiling == Init /\ [][NextCeiling]_vars

\* recover and assemble on the lists of a caller
NextLists == Gather \/ Recover \/ SignEach \/ Assemble

SpecLists == Init /\ [][NextLists]_vars

(***************************************************************************)
(* utils.rs: a call of lambda_coeff or of poly_eval on its own             *)
(***************************************************************************)
Call(name, arguments, panics, result) ==
    /\ args' = arguments
    /\ ret' = IF panics THEN None ELSE Some(result)
    /\ aborted' = panics
    /\ op' = name
    /\ UNCHANGED << keyVars, sigVars, thrVars, prsVars, verVars, serVars >>

LambdaCoeff ==
    /\ ~aborted /\ op = "init"
    /\ \E fragment_index \in Fr, fragment_indices \in ScalarLists :
         Call("lambda_coeff", << fragment_index, fragment_indices >>,
              lambda_coeff_panics(fragment_index, fragment_indices),
              lambda_coeff(fragment_index, fragment_indices))

PolyEval ==
    /\ ~aborted /\ op = "init"
    /\ \E poly_coeffs \in ScalarLists, x \in Fr :
         Call("poly_eval", << poly_coeffs, x >>,
              poly_eval_panics(poly_coeffs),
              poly_eval(poly_coeffs, x))

NextUtils == LambdaCoeff \/ PolyEval

SpecUtils == Init /\ [][NextUtils]_vars

Next ==
    \/ Random \/ PublicKeyOf \/ Sign \/ Verify
    \/ Split \/ Take \/ PickFragment \/ Recover \/ SignEach \/ Assemble
    \/ Parties \/ DesignatedKey \/ ResigningKey \/ Resign
    \/ Input \/ KeyToBytes \/ KeyFromBytes \/ PubToBytes \/ PubFromBytes
    \/ SigToBytes \/ SigFromBytes

Spec == Init /\ [][Next]_vars

(***************************************************************************)
(* Properties                                                              *)
(***************************************************************************)
\* the key that was split, as the caller of recover expects it back
SplitKey == PrivateKey(unwrap(secret), None)
\* a split whose arguments meet the documented precondition
ValidSplit == 1 <= thr /\ thr <= cnt /\ cnt <= FRAGMENT_BUFFER_LEN

\* C1 (threshold correctness): recover applied to any m of the n fragments of
\* sk.split(m, n), 1 <= m <= n <= 256, returns sk's scalar with no share id,
\* whatever split drew.
C1_ThresholdCorrectness ==
    (op = "recover" /\ ValidSplit /\ Len(frags) = thr)
        => key = Some(SplitKey)

\* C2 (threshold signature correctness): when each of m fragments of
\* sk.split(m, n) signs M, assemble of the fragment signatures equals
\* sk.sign(M), with no share id, and verifies Valid under sk.public_key().
C2_ThresholdSignatureCorrectness ==
    (op = "assemble" /\ ValidSplit /\ Len(sigs) = thr)
        => /\ sig = Some(PrivateKey_sign(SplitKey, unwrap(msg)))
           /\ PublicKey_verify(PrivateKey_public_key(SplitKey), unwrap(msg),
                               unwrap(sig)) = "Valid"

\* the states in which the proxy has re-signed what Bob signed with the
\* designated key
Resigned == op = "resign" /\ signerFrom = "resigning_key"

\* C3 (proxy re-signature correctness), as the code has it: for all sk_a,
\* sk_b and M, resigning_key(sk_a, pk_b).resign(designated_key(sk_b, pk_a)
\* .sign(M)) is the G2 point of sk_a.sign(M) with no share id, and verifies
\* under pk_a; it is equal to sk_a.sign(M) when sk_a is not a fragment.
C3_ResignCorrectness ==
    Resigned =>
        LET expected == PrivateKey_sign(unwrap(alice), unwrap(msg))
        IN  /\ unwrap(sig).p = expected.p
            /\ unwrap(sig).id = None
            /\ PublicKey_verify(PrivateKey_public_key(unwrap(alice)), unwrap(msg),
                                unwrap(sig)) = "Valid"
            /\ ~PrivateKey_is_fragment(unwrap(alice)) => sig = Some(expected)

C3_Witness ==
    /\ Resigned
    /\ ~PrivateKey_is_fragment(unwrap(alice))
    /\ unwrap(alice).s # Scalar_zero /\ unwrap(alice).s # unwrap(bob).s
    /\ unwrap(msg) # G2_identity
    /\ key # alice
    /\ sig = Some(PrivateKey_sign(unwrap(alice), unwrap(msg)))

\* C3 as stated: the re-signed signature equals sk_a.sign(M) for every sk_a
C3_ResignEqualsSign ==
    Resigned => sig = Some(PrivateKey_sign(unwrap(alice), unwrap(msg)))

\* the states in which a verifier has checked a signature made by sign, under
\* the signer's public key
VerifiedOwn ==
    /\ op = "verify" /\ sigFrom = "sign"
    /\ pub = Some(PrivateKey_public_key(unwrap(key)))

\* C4 (sign/verify correctness): for every sk and every message point M,
\* sk.public_key().verify(M, sk.sign(M)) is Valid.
C4_SignVerifyCorrectness ==
    (VerifiedOwn /\ vmsg = msg) => verdict = "Valid"

C4_Witness ==
    /\ VerifiedOwn /\ vmsg = msg
    /\ unwrap(key).s > Scalar_one /\ unwrap(msg) # G2_identity
    /\ verdict = "Valid"

\* C5 (sign/verify soundness): for every sk and message points M # M',
\* sk.public_key().verify(M', sk.sign(M)) is Invalid.
C5_SignVerifySoundness ==
    (VerifiedOwn /\ vmsg # msg) => verdict = "Invalid"

\* the serialized lengths of the table: 32 or 64 for a key, 96 or 128 for a
\* signature
KeyLen(k) ==
    IF PrivateKey_is_fragment(k) THEN FRAGMENT_KEY_BYTES ELSE SCALAR_BYTES_LENGTH
SigLen(s) ==
    IF Signature_is_fragment(s) THEN FRAGMENT_SIGNATURE_BYTES ELSE G2_POINT_BYTES_LENGTH

\* C6 (serialization round-trip): from_bytes(to_bytes(v)) = v for every
\* PrivateKey, PublicKey and Signature, ordinary or fragment, the serialized
\* form being the first 32 or 64 bytes written for a key, the 48 bytes
\* returned for a public key, the first 96 or 128 bytes written for a
\* signature.
C6_SerializationRoundTrip ==
    /\ (op = "key_from_bytes" /\ keySrc # None /\ Len(buf) = KeyLen(unwrap(keySrc)))
           => ~aborted /\ key = keySrc
    /\ op = "pub_to_bytes" => Len(buf) = G1_COMPRESSED_LEN
    /\ (op = "pub_from_bytes" /\ pubSrc # None)
           => ~aborted /\ pub = pubSrc
    /\ (op = "sig_from_bytes" /\ sigSrc # None /\ Len(buf) = SigLen(unwrap(sigSrc)))
           => ~aborted /\ sig = sigSrc

C6_Witness ==
    /\ op = "key_from_bytes" /\ keySrc # None
    /\ PrivateKey_is_fragment(unwrap(keySrc))
    /\ unwrap(keySrc).s > Scalar_one /\ unwrap(unwrap(keySrc).id) > Scalar_one
    /\ unwrap(keySrc).s # unwrap(unwrap(keySrc).id)
    /\ Len(buf) = FRAGMENT_KEY_BYTES
    /\ key = keySrc

\* the constructors that return a key with a share id
FragmentKeySources == {"split", "from_bytes_fragment"}

\* C7 (fragment discriminator), as the code has it: a key is a fragment
\* exactly when it was produced by split or read by from_bytes from the
\* fragment form; a signature is a fragment exactly when it was produced by
\* sign or resign invoked on a fragment key, or read by from_bytes from the
\* fragment form; keys of random, recover, designated_key and resigning_key
\* and signatures of assemble are never fragments.
C7_FragmentDiscriminator ==
    /\ key # None =>
          (PrivateKey_is_fragment(unwrap(key)) <=> keyFrom \in FragmentKeySources)
    /\ sig # None =>
          (Signature_is_fragment(unwrap(sig)) <=>
              \/ sigFrom \in {"sign", "resign"} /\ signerFrom \in FragmentKeySources
              \/ sigFrom = "from_bytes_fragment")
    /\ \A i \in 1 .. Len(frags) : PrivateKey_is_fragment(frags[i])
    /\ \A i \in 1 .. Len(sigs) : Signature_is_fragment(sigs[i])
    /\ op \in {"random", "recover", "designated_key", "resigning_key"}
          => (aborted \/ ~PrivateKey_is_fragment(unwrap(key)))
    /\ op = "assemble" => (aborted \/ ~Signature_is_fragment(unwrap(sig)))

C7_Witness ==
    /\ op = "resign" /\ sigFrom = "resign"
    /\ keyFrom = "from_bytes_fragment" /\ signerFrom = keyFrom
    /\ PrivateKey_is_fragment(unwrap(key))
    /\ Signature_is_fragment(unwrap(sig))

\* C7 as stated: a key is a fragment exactly when split produced it, a
\* signature exactly when sign invoked on a fragment key produced it
C7_FragmentOnlyBySplitOrSign ==
    /\ key # None =>
          (PrivateKey_is_fragment(unwrap(key)) <=> keyFrom = "split")
    /\ sig # None =>
          (Signature_is_fragment(unwrap(sig)) <=>
              sigFrom = "sign" /\ signerFrom \in FragmentKeySources)
    /\ op \in {"random", "recover", "designated_key", "resigning_key"}
          => (aborted \/ ~PrivateKey_is_fragment(unwrap(key)))
    /\ op = "assemble" => (aborted \/ ~Signature_is_fragment(unwrap(sig)))

\* C8 (designated-key symmetry): designated_key(sk_a, pk_b) equals
\* designated_key(sk_b, pk_a), and is not a fragment.
C8_DesignatedKeySymmetry ==
    op = "designated_key" =>
        /\ key = Some(PrivateKey_designated_key(unwrap(alice),
                                                PrivateKey_public_key(unwrap(bob))))
        /\ ~PrivateKey_is_fragment(unwrap(key))

C8_Witness ==
    /\ op = "designated_key"
    /\ unwrap(alice).s # unwrap(bob).s
    /\ unwrap(alice).s > Scalar_one /\ unwrap(bob).s > Scalar_one
    /\ PrivateKey_is_fragment(unwrap(bob))
    /\ key = Some(PrivateKey_designated_key(unwrap(alice),
                                            PrivateKey_public_key(unwrap(bob))))

\* C9 (split precondition enforcement): split is fatal whenever its
\* arguments violate 1 <= m <= n or n <= 256, so a split that returned was
\* called with arguments that meet them.
C9_SplitPreconditionEnforced ==
    (op = "split" /\ ~aborted) => ValidSplit

\* C10 (share-id invariant): every key and every signature that carries a
\* share id has an id different from zero.
C10_ShareIdNonZero ==
    /\ key # None => unwrap(key).id # Some(Scalar_zero)
    /\ sig # None => unwrap(sig).id # Some(Scalar_zero)
    /\ \A i \in 1 .. Len(frags) : frags[i].id # Some(Scalar_zero)
    /\ \A i \in 1 .. Len(sigs) : sigs[i].id # Some(Scalar_zero)


\* a recovery or an assembly from fewer fragments than the threshold of the
\* split they come from
BelowThreshold(k) == 2 <= thr /\ thr <= cnt /\ 1 <= k /\ k < thr

Zeroed(len) == [i \in 1 .. len |-> 0]

\* C12 (deserialization rejects malformed input): from_bytes aborts for every
\* input that is not the canonical encoding of one of the two forms, so a
\* from_bytes that returned was given 32 or 64 bytes (96 or 128 for a
\* signature) that are the encoding of the value it returned.
C12_RejectsMalformedInput ==
    /\ (op = "key_from_bytes" /\ ~aborted) =>
          /\ Len(buf) \in {SCALAR_BYTES_LENGTH, FRAGMENT_KEY_BYTES}
          /\ buf = PrivateKey_to_bytes(unwrap(key), Zeroed(Len(buf)))
    /\ (op = "sig_from_bytes" /\ ~aborted) =>
          /\ Len(buf) \in {G2_POINT_BYTES_LENGTH, FRAGMENT_SIGNATURE_BYTES}
          /\ buf = Signature_to_bytes(unwrap(sig), Zeroed(Len(buf)))


\* the b with a * b = 1 in Fr, for a # 0
Inverse(a) == CHOOSE b \in Fr : (a * b) % q = 1

\* the product over the positions 1 .. k of indices whose entry j differs
\* from i, of j * (j - i)^-1
RECURSIVE LagrangeProduct(_, _, _)
LagrangeProduct(i, indices, k) ==
    IF k = 0 THEN 1
    ELSE LET j == indices[k]
             factor == IF j = i THEN 1 ELSE (j * Inverse((j - i + q) % q)) % q
         IN  (LagrangeProduct(i, indices, k - 1) * factor) % q

\* C13 (lambda_coeff): for every i and every list of indices, the empty list,
\* a list of entries all equal to i and lists with repeated entries included,
\* lambda_coeff returns the product over the j in indices with j # i of
\* j * (j - i)^-1, and does not abort on an inverse of zero.
C13_LambdaCoeffProduct ==
    op = "lambda_coeff" =>
        /\ ~aborted
        /\ ret = Some(LagrangeProduct(args[1], args[2], Len(args[2])))

\* a list with a repeated entry and an entry equal to i
C13_Witness ==
    /\ op = "lambda_coeff" /\ Len(args[2]) = 3
    /\ args[2][1] = args[2][3] /\ args[2][1] # args[1]
    /\ args[2][2] = args[1]
    /\ ret \notin {None, Some(Scalar_zero), Some(Scalar_one)}


\* x^k in Fr
RECURSIVE Power(_, _)
Power(x, k) == IF k = 0 THEN 1 ELSE (x * Power(x, k - 1)) % q

\* coeffs[1] + coeffs[2]*x + ... + coeffs[k]*x^(k-1) in Fr
RECURSIVE DirectSum(_, _, _)
DirectSum(coeffs, x, k) ==
    IF k = 0 THEN 0
    ELSE (DirectSum(coeffs, x, k - 1) + coeffs[k] * Power(x, k - 1)) % q

\* C14 (poly_eval): for a non-empty coefficient list poly_eval returns
\* coeffs[0] + coeffs[1]*x + ... + coeffs[k-1]*x^(k-1), a single coefficient
\* unchanged; for the empty list it aborts.
C14_PolyEvalDirectSum ==
    op = "poly_eval" =>
        LET coeffs == args[1]
            x == args[2]
        IN  IF coeffs = << >>
            THEN aborted /\ ret = None
            ELSE /\ ~aborted
                 /\ ret = Some(DirectSum(coeffs, x, Len(coeffs)))
                 /\ Len(coeffs) = 1 => ret = Some(coeffs[1])

C14_Witness ==
    /\ op = "poly_eval" /\ Len(args[1]) = 3
    /\ args[2] > 1
    /\ \A i \in 1 .. 3 : args[1][i] # 0
    /\ args[1][1] # args[1][3]
    /\ ret = Some(DirectSum(args[1], args[2], 3))


\* the lists that are a permutation of seq
Permuted(seq) ==
    {[i \in 1 .. Len(seq) |-> seq[p[i]]] : p \in Permutations(1 .. Len(seq))}

\* C15 (order independence): recover returns the same key for every
\* permutation of a list of fragments, assemble the same signature for every
\* permutation of a list of fragment signatures.
C15_OrderIndependence ==
    /\ (op = "recover" /\ ~aborted) =>
          \A fragments \in Permuted(frags) :
              /\ ~PrivateKey_recover_panics(fragments)
              /\ PrivateKey_recover(fragments) = unwrap(key)
    /\ (op = "assemble" /\ ~aborted) =>
          \A fragments \in Permuted(sigs) :
              /\ ~Signature_assemble_panics(fragments)
              /\ Signature_assemble(fragments) = unwrap(sig)

\* two fragments with different ids and scalars, recovered to a non-zero key
C15_Witness ==
    /\ op = "recover" /\ ~aborted /\ secret = None
    /\ Len(frags) = 2
    /\ frags[1].id # frags[2].id /\ frags[1].s # frags[2].s
    /\ unwrap(key).s # Scalar_zero
    /\ PrivateKey_recover(<< frags[2], frags[1] >>) = unwrap(key)


\* C16 (fragment ceiling of 256): for a list of at most 256 fragments the
\* copy of the share ids stays in bounds and recover and assemble return; for
\* a list of more than 256 they abort and return nothing.
C16_FragmentCeiling ==
    /\ op = "recover" =>
          IF Len(frags) <= FRAGMENT_BUFFER_LEN
          THEN ~aborted /\ key # None
          ELSE aborted /\ key = None
    /\ op = "assemble" =>
          IF Len(sigs) <= FRAGMENT_BUFFER_LEN
          THEN ~aborted /\ sig # None
          ELSE aborted /\ sig = None

\* a recovery from a list that fills the buffer exactly
C16_Witness ==
    /\ op = "recover" /\ Len(frags) = FRAGMENT_BUFFER_LEN
    /\ frags[1].s # Scalar_zero
    /\ ~aborted /\ key # None


\* C17 (assemble is the G2 image of recover): for every list fs of fragment
\* keys, ids distinct or not, and every message point M, assemble of the
\* list of f.sign(M) equals recover(fs).sign(M).
C17_AssembleIsSignedRecover ==
    (op = "assemble" /\ ~aborted) =>
        /\ ~PrivateKey_recover_panics(frags)
        /\ sig = Some(PrivateKey_sign(PrivateKey_recover(frags), unwrap(msg)))

\* two fragments with one id between them, assembled to a point other than
\* the identity
C17_Witness ==
    /\ op = "assemble" /\ ~aborted /\ secret = None
    /\ Len(frags) = 2 /\ frags[1].id = frags[2].id /\ frags[1].s # frags[2].s
    /\ unwrap(sig).p # G2_identity
    /\ sig = Some(PrivateKey_sign(PrivateKey_recover(frags), unwrap(msg)))


\* fragments whose share ids differ pairwise
DistinctIds(fragments) ==
    \A i, j \in 1 .. Len(fragments) : i # j => fragments[i].id # fragments[j].id

\* C18 (recovery from more than the threshold): recover applied to any k
\* fragments of sk.split(m, n), m <= k <= n, whose ids differ pairwise,
\* returns sk, and assemble applied to their signatures on M returns
\* sk.sign(M).
C18_RecoveryAtOrAboveThreshold ==
    /\ (op = "recover" /\ ValidSplit /\ Len(frags) >= thr /\ DistinctIds(frags))
          => key = Some(SplitKey)
    /\ (op = "assemble" /\ ValidSplit /\ Len(sigs) >= thr /\ DistinctIds(sigs))
          => sig = Some(PrivateKey_sign(SplitKey, unwrap(msg)))

\* more fragments than the threshold, recovered to a non-zero key
C18_Witness ==
    /\ op = "recover" /\ ValidSplit
    /\ Len(frags) > thr /\ DistinctIds(frags)
    /\ unwrap(secret) # Scalar_zero
    /\ key = Some(SplitKey)


\* C19 (frame of to_bytes): PrivateKey::to_bytes writes bytes 0..32 of the
\* caller's buffer for an ordinary key and bytes 0..64 for a fragment,
\* Signature::to_bytes bytes 0..96 for an ordinary signature and 0..128 for
\* a fragment; every other byte of the buffer is what the caller put there,
\* the key or signature is the one the call was made on, and the call aborts
\* exactly when the buffer is shorter than the written range.
FrameOf(written, buff, encoding) ==
    /\ Len(written) = Len(buff)
    /\ \A i \in 1 .. Len(buff) :
         written[i] = IF i <= Len(encoding) THEN encoding[i] ELSE buff[i]
KeyEncoding(k) ==
    Scalar_to_bytes(k.s)
      \o (IF PrivateKey_is_fragment(k) THEN Scalar_to_bytes(unwrap(k.id)) ELSE << >>)
SigEncoding(s) ==
    Point_to_compressed(s.p, G2_COMPRESSED_LEN)
      \o (IF Signature_is_fragment(s) THEN Scalar_to_bytes(unwrap(s.id)) ELSE << >>)
C19_ToBytesFrame ==
    /\ op = "key_to_bytes" =>
         /\ key = keySrc /\ key # None
         /\ Len(KeyEncoding(unwrap(key))) = KeyLen(unwrap(key))
         /\ aborted <=> Len(args[1]) < KeyLen(unwrap(key))
         /\ ~aborted => FrameOf(buf, args[1], KeyEncoding(unwrap(key)))
    /\ op = "sig_to_bytes" =>
         /\ sig = sigSrc /\ sig # None
         /\ Len(SigEncoding(unwrap(sig))) = SigLen(unwrap(sig))
         /\ aborted <=> Len(args[1]) < SigLen(unwrap(sig))
         /\ ~aborted => FrameOf(buf, args[1], SigEncoding(unwrap(sig)))
         /\ LET buff == Signature_to_bytes_buff(unwrap(sig))
            IN  /\ ~Signature_to_bytes_panics(unwrap(sig), buff)
                /\ Signature_to_bytes(unwrap(sig), buff) = SigEncoding(unwrap(sig))
C19_Witness ==
    /\ op = "key_to_bytes" /\ ~aborted
    /\ PrivateKey_is_fragment(unwrap(key))
    /\ Len(args[1]) > FRAGMENT_KEY_BYTES /\ args[1][1] = 170
    /\ buf # args[1]
    /\ buf[FRAGMENT_KEY_BYTES + 1] = 170


\* C20 (ordinary values are rejected by the Lagrange combinations): recover
\* aborts and returns no key whenever an element of its list is a key without
\* a share id, and assemble aborts and returns no signature whenever an
\* element of its list is a signature without a share id.
HasOrdinary(fragments) ==
    \E i \in 1 .. Len(fragments) : fragments[i].id = None
C20_OrdinaryValuesRejected ==
    /\ (op = "recover" /\ HasOrdinary(frags)) => (aborted /\ key = None)
    /\ (op = "assemble" /\ HasOrdinary(sigs)) => (aborted /\ sig = None)

\* recover was handed a fragment followed by an ordinary key
C20_Witness ==
    /\ op = "recover" /\ aborted
    /\ Len(frags) = 2
    /\ PrivateKey_is_fragment(frags[1]) /\ ~PrivateKey_is_fragment(frags[2])

====
